---- MODULE Spec2Model ----
(***************************************************************************)
(* Model of the server action addUser (src/actions/userActions.ts) and of  *)
(* the two ways the registration form invokes it.                          *)
(*                                                                         *)
(* One invocation of addUser is an async function: it runs in segments     *)
(* separated by its await points (wait, fetch, response.json).  Each       *)
(* action below is one such segment, so invocations of different sessions  *)
(* interleave exactly at the awaits, as they do on the JavaScript event    *)
(* loop.                                                                   *)
(***************************************************************************)
EXTENDS Integers, Sequences, FiniteSets, TLC

\* ---------------------------------------------------------------- bounds
NSessions == 2          \* independent user sessions (browser tabs)
MaxSubmit == 2          \* submissions one session makes
MaxReads == 2           \* renders of the listing

Sessions == 1..NSessions
\* the session of the single-session specification
Primary == CHOOSE s \in Sessions : \A r \in Sessions : s <= r

\* ------------------------------------------------------- JavaScript values
\* A JavaScript value is a type tag and a printed value.
Undefined == [t |-> "undefined", v |-> ""]
Str(s) == [t |-> "string", v |-> s]
List(s) == [t |-> "object", v |-> s]

\* JavaScript truthiness, as used by the || operator.
Truthy(x) ==
    CASE x.t = "string" -> x.v # ""
      [] x.t = "number" -> x.v \notin {"0", "NaN"}
      [] x.t = "boolean" -> x.v = "true"
      [] x.t = "object" -> TRUE
      [] OTHER -> FALSE

\* a || b
Or(a, b) == IF Truthy(a) THEN a ELSE b

\* obj[key]: the member, undefined when the object has none of that name
Member(obj, key) == IF key \in DOMAIN obj THEN obj[key] ELSE Undefined

\* ------------------------------------------------------------ form inputs
\* The FormData argument: defined with its two fields, or undefined.
FormData(n, e) == [defined |-> TRUE, name |-> n, email |-> e]
NoFormData == [defined |-> FALSE, name |-> "", email |-> ""]

Names == {"Ada", ""}
Emails == {"ada@example.com", "bob@example.com"}
FormDatas == {FormData(n, e) : n \in Names, e \in Emails}
CoreFormDatas == {FormData("Ada", "ada@example.com")}

\* "valid field inputs": every required field is non-empty text
Valid(fd) == fd.defined /\ fd.name # "" /\ fd.email # ""

\* ------------------------------------------------------- remote responses
UserRecord == [id |-> "1", name |-> "Ada", email |-> "ada@example.com"]
NoRecord == [id |-> "", name |-> "", email |-> ""]

\* A response body: text that is not JSON, JSON null, a JSON primitive, or a
\* JSON object with an optional message member and the other members (data).
Unparsable == [kind |-> "unparsable", message |-> Undefined, data |-> NoRecord]
JsonNull == [kind |-> "null", message |-> Undefined, data |-> NoRecord]
JsonText == [kind |-> "primitive", message |-> Undefined, data |-> NoRecord]
Obj(m, d) == [kind |-> "object", message |-> m, data |-> d]

\* The message member: absent, text, empty text, or a list of texts.
Messages ==
    {Undefined, Str("email already exists"), Str(""),
     List("[email must be an email]")}
Bodies ==
    {Unparsable, JsonNull, JsonText, Obj(Undefined, UserRecord)}
        \cup {Obj(m, NoRecord) : m \in Messages}

Statuses == {200, 400, 500}
Response(st, b) == [status |-> st, body |-> b]
Responses == {Response(st, b) : st \in Statuses, b \in Bodies}
CoreResponses ==
    {Response(200, Obj(Undefined, UserRecord)), Response(200, Unparsable),
     Response(400, Obj(Str("email already exists"), NoRecord)),
     Response(500, JsonNull)}
NoResponse == Response(0, Unparsable)

\* response.ok
Ok(response) == response.status >= 200 /\ response.status <= 299

\* ------------------------------------------------------------- FormState
FormState(e, s) == [error |-> e, success |-> s]
InitialState == FormState(Undefined, FALSE)
NoResult == [pending |-> TRUE]

RegisterUrl == "http://localhost:5000/api/v1/auth/register"
NoRequest == [url |-> "", method |-> "", body |-> [name |-> "", email |-> ""]]

\* (a request that also carries the bound id)
RegisterRequestWithId(formData) ==
    [url |-> RegisterUrl, method |-> "POST",
     body |-> [name |-> formData.name, email |-> formData.email,
               id |-> "12345"]]

\* The request addUser hands to fetch.
RegisterRequest(formData) ==
    [url |-> RegisterUrl, method |-> "POST",
     body |-> [name |-> formData.name, email |-> formData.email]]

\* `Server error: ${response.status}`
ServerError(status) == Str("Server error: " \o ToString(status))

\* errorData.message || `Server error: ${response.status}`
ErrorMessage(errorData, status) == Or(errorData.message, ServerError(status))

\* reading errorData.message faults when errorData is null
MessageReadFaults(errorData) == errorData.kind = "null"

\* response.json() rejects when the body is not JSON
JsonRejects(body) == body.kind = "unparsable"

\* the value returned in the !response.ok branch
RejectionState(errorData, status) ==
    FormState(ErrorMessage(errorData, status), FALSE)

\* (a success value that also carries the remote's record)
SuccessStateWithData ==
    [error |-> Undefined, success |-> TRUE, data |-> UserRecord]

\* the value returned after a successful call
SuccessState == FormState(Undefined, TRUE)

ConnectivityMessage ==
    Str("Failed to add user. Please check your network connection and try again.")

\* (a catch block that reports the text of the caught error)
CatchStateLeaky == FormState(Str("TypeError: fetch failed"), FALSE)

\* the value returned by the catch block
CatchState == FormState(ConnectivityMessage, FALSE)

\* ------------------------------------------------------- listing: getUsers
\* Parsed JSON values of the listing endpoint: null, a number, an array of
\* records, or an object with an optional users member.
Null == [t |-> "null", v |-> ""]
Number42 == [t |-> "number", v |-> "42"]
Arr(items) == [t |-> "object", v |-> "array", items |-> items]
ObjUsers(u) == [t |-> "object", v |-> "object", users |-> u]

Ada == [_id |-> "1", name |-> "Ada", email |-> "ada@example.com"]
Bob == [_id |-> "2", name |-> "Bob", email |-> "bob@example.com"]
UserLists == {Arr(<<>>), Arr(<<Ada>>), Arr(<<Ada, Bob>>)}

IsArray(x) == x.t = "object" /\ x.v = "array"

\* A body of the listing endpoint: text that is not JSON, or a JSON value.
NotJson == [parses |-> FALSE, data |-> Null]
Json(x) == [parses |-> TRUE, data |-> x]
ListBodies ==
    {NotJson, Json(Null), Json(Number42), Json(Str("abc")),
     Json(ObjUsers(Undefined))}
        \cup {Json(a) : a \in UserLists}
        \cup {Json(ObjUsers(a)) : a \in UserLists}

ListResponses == {Response(st, b) : st \in {200, 404, 500}, b \in ListBodies}
CoreListResponses ==
    {Response(200, Json(ObjUsers(Arr(<<Ada>>)))), Response(500, NotJson)}
NoListResponse == Response(0, NotJson)

\* res.statusText
StatusText(status) ==
    CASE status = 200 -> "OK"
      [] status = 400 -> "Bad Request"
      [] status = 404 -> "Not Found"
      [] status = 500 -> "Internal Server Error"
      [] OTHER -> ""

\* data.users: the member of an object, undefined on any other value
\* that has members
UsersOf(data) == IF "users" \in DOMAIN data THEN data.users ELSE Undefined

\* reading data.users faults when data is null
UsersReadFaults(data) == data.t = "null"

\* How a segment completes: it returns a value or throws, having called
\* revalidatePath `revalidations` times on the way.
Returns(r, n) == [kind |-> "return", value |-> r, revalidations |-> n]
Throws(n) == [kind |-> "throw", value |-> [pending |-> TRUE], revalidations |-> n]

\* the value getUsers returns: {users, error}
Listing(u, e) == [users |-> u, error |-> e]
NoListing == [pending |-> TRUE]

\* `Failed to fetch users: ${res.status} ${res.statusText}`
FetchUsersError(status) ==
    Str("Failed to fetch users: " \o ToString(status) \o " " \o StatusText(status))

NetworkErrorMessage ==
    Str("Network error: Unable to fetch users. Please check your connection.")

\* the !res.ok branch of getUsers
ListingHttpError(res) == Listing(Arr(<<>>), FetchUsersError(res.status))

\* the catch block of getUsers
ListingCatch == Listing(Arr(<<>>), NetworkErrorMessage)

\* const data = await res.json(); return {users: data.users || data, error: null}
ListingParsed(body) ==
    IF ~body.parses \/ UsersReadFaults(body.data)
      THEN Throws(0)
      ELSE Returns(Listing(Or(UsersOf(body.data), body.data), Null), 0)

\* try { ... } catch (error) { return {users: [], error: "Network error..."} }
ListingTry(c) == IF c.kind = "throw" THEN Returns(ListingCatch, 0) ELSE c

\* getUsers of src/actions/userActions.ts: the fetch is commented out
ListingStub == Arr(<<>>)

\* ------------------------------------------------------ listing: UserList
\* What UserList renders under its heading: the error banner, the rows, or
\* the text of the empty list; a render that throws renders nothing.
View(k, m, r) == [kind |-> k, text |-> m, rows |-> r]
NoView == View("none", "", <<>>)
NoUsersFound == View("empty", "No users found.", <<>>)
RenderThrows == View("throws", "TypeError: result.users.map is not a function", <<>>)

\* users?.length > 0: arrays and strings have a length
HasLength(users) ==
    \/ IsArray(users) /\ Len(users.items) > 0
    \/ users.t = "string" /\ Len(users.v) > 0

\* result.users.map((user, index) => <li key={user._id}>...): one row for
\* each record, with index + 1, user.name and user.email
RowsOf(users) ==
    View("list", "",
         [i \in 1..Len(users.items) |->
            [key |-> users.items[i]._id, number |-> i,
             name |-> users.items[i].name, email |-> users.items[i].email]])

\* The conditional of UserList over the result of getUsers.  (On the bare
\* list of the getUsers without fetch both versions of UserList render the
\* text of the empty list.)
UserListView(result) ==
    IF Truthy(Member(result, "error"))
      THEN View("error", result.error.v, <<>>)
    ELSE IF HasLength(Member(result, "users"))
      THEN IF IsArray(result.users) THEN RowsOf(result.users) ELSE RenderThrows
    ELSE NoUsersFound

\* ------------------------------------------------- the cache of the views
\* The external cache of rendered views, as far as the view of the listing
\* goes: how often the view has been marked stale, and the rendering held
\* with the mark count and the success count of the moment its fetch began.
\* (an addUser that invalidates another view than the one with the listing)
RevalidatedOtherPath == "/users"

\* revalidatePath("/")
RevalidatedPath == "/"
ListingPath == "/"

NoCache == [marks |-> 0, held |-> FALSE, heldMarks |-> 0, asOf |-> 0,
            rendering |-> NoListing]

\* revalidatePath(path), called n times
MarkStale(c, path, n) ==
    IF path = ListingPath THEN [c EXCEPT !.marks = @ + n] ELSE c

\* the held rendering may be served: no mark has come since its fetch began
Fresh(c) == c.held /\ c.heldMarks = c.marks

\* ------------------------------------------ the guide's factory: values
\* Text entered in a form or given as an option is a sequence of characters;
\* numbers and booleans are held by their printed value.
\* the JavaScript string of a sequence of characters
RECURSIVE StringOf(_)
StringOf(cs) == IF cs = <<>> THEN "" ELSE Head(cs) \o StringOf(Tail(cs))

Text(cs) == [t |-> "string", v |-> StringOf(cs), chars |-> cs]
Num(n) == [t |-> "number", v |-> ToString(n)]
Bool(b) == [t |-> "boolean", v |-> IF b THEN "true" ELSE "false"]

IsUndefined(x) == "t" \in DOMAIN x /\ x.t = "undefined"

NoMembers == [k \in {} |-> Undefined]

\* --------------------------------------- the guide's factory: form inputs
\* A FormData: its entries in submission order, each a key and a text.
Entry(k, cs) == [key |-> k, value |-> cs]

JohnDoeName == <<"J", "o", "h", "n", " ", "D", "o", "e">>
JohnDoeEmail ==
    <<"j", "o", "h", "n", "@", "e", "x", "a", "m", "p", "l", "e", ".", "c",
      "o", "m">>
InvalidEmail ==
    <<"i", "n", "v", "a", "l", "i", "d", "-", "e", "m", "a", "i", "l">>

\* The forms: no name entry, one, or the same key twice (a name of 51
\* characters among them), followed by no e-mail entry or one; and the
\* form of John Doe followed by the entries of a key that no schema has,
\* tags: none, one or two.
Forms ==
    LET names ==
            {<<>>, <<Entry("name", <<"A">>), Entry("name", <<"l">>)>>}
                \cup {<<Entry("name", cs)>> :
                        cs \in {<<>>, <<"A">>, JohnDoeName,
                                [i \in 1..51 |-> "a"], <<"4", "2">>,
                                <<"t", "r", "u", "e">>}}
        emails ==
            {<<>>}
                \cup {<<Entry("email", cs)>> :
                        cs \in {<<>>, InvalidEmail, JohnDoeEmail,
                                <<"a", "@", "b">>,
                                <<"a", " ", "b", "@", "c", ".", "d">>}}
        tags ==
            {<<>>, <<Entry("tags", <<"a">>)>>,
             <<Entry("tags", <<"a">>), Entry("tags", <<"b">>)>>,
             <<Entry("tags", <<"1">>), Entry("tags", <<"2">>)>>,
             <<Entry("tags", <<>>), Entry("tags", <<"b">>)>>}
    IN  {n \o e : n \in names, e \in emails}
            \cup {<<Entry("name", JohnDoeName), Entry("email", JohnDoeEmail)>>
                        \o g : g \in tags}

\* ------------------------------------ the guide's factory: numbers
\* Number(stringValue) is a number and stringValue is not empty.  The texts
\* of the model hold no sign, fraction or exponent: such a text is a number
\* when it is all digits, or all spaces (which Number reads as 0).
IsNumeric(cs) ==
    /\ cs # <<>>
    /\ \/ \A i \in 1..Len(cs) : \E n \in 0..9 : cs[i] = ToString(n)
       \/ \A i \in 1..Len(cs) : cs[i] = " "

RECURSIVE NumberOf(_, _)
NumberOf(cs, acc) ==
    IF cs = <<>> THEN acc
    ELSE IF Head(cs) = " " THEN NumberOf(Tail(cs), acc)
    ELSE NumberOf(Tail(cs),
                  10 * acc + (CHOOSE n \in 0..9 : ToString(n) = Head(cs)))

\* ---------------------------------- the guide's factory: validateData
\* One round of the loop over data.entries(): a key seen before with a truthy
\* value collects its values in an array.
Collect(obj, key, value) ==
    IF Truthy(Member(obj, key))
    THEN IF IsArray(obj[key])
         THEN [obj EXCEPT ![key] = Arr(Append(@.items, value))]
         ELSE [obj EXCEPT ![key] = Arr(<<@, value>>)]
    ELSE (key :> value) @@ obj

\* dataObj after the loop, from the entries still to come
RECURSIVE DataObj(_, _)
DataObj(entries, obj) ==
    IF entries = <<>> THEN obj
    ELSE DataObj(Tail(entries),
                 Collect(obj, Head(entries).key, Text(Head(entries).value)))

\* /^[^\s@]+@[^\s@]+\.[^\s@]+$/.test(value)
EmailRegexTest(cs) ==
    \E i, j \in 1..Len(cs) :
        /\ 1 < i /\ i + 1 < j /\ j < Len(cs)
        /\ cs[i] = "@" /\ cs[j] = "."
        /\ \A k \in 1..Len(cs) : k # i => cs[k] \notin {" ", "@"}

\* userValidationSchema.name
NameValidator(value) ==
    IF ~Truthy(value) \/ value.t # "string" THEN Str("Name is required")
    ELSE IF Len(value.v) < 2 THEN Str("Name must be at least 2 characters")
    ELSE IF Len(value.v) > 50 THEN Str("Name must be less than 50 characters")
    ELSE Null

\* userValidationSchema.email
EmailValidator(value) ==
    IF ~Truthy(value) \/ value.t # "string" THEN Str("Email is required")
    ELSE IF ~EmailRegexTest(value.chars) THEN Str("Please enter a valid email address")
    ELSE Null

\* A validation schema: its keys in order, each with its validator.
UserSchema ==
    <<[key |-> "name", rule |-> "user.name"],
      [key |-> "email", rule |-> "user.email"]>>
ProductSchema ==
    <<[key |-> "name", rule |-> "product.name"],
      [key |-> "price", rule |-> "product.price"],
      [key |-> "category", rule |-> "product.category"]>>

\* The validators of userValidationSchema and of productValidationSchema.
\* parseFloat reads the digits a text begins with (the texts of the model
\* hold no sign or fraction); of an array it reads those of the first item,
\* and of undefined it is NaN.
Validator(rule, value) ==
    CASE rule = "user.name" -> NameValidator(value)
      [] rule = "user.email" -> EmailValidator(value)
      [] rule = "product.name" ->
            IF ~Truthy(value) \/ value.t # "string"
            THEN Str("Product name is required")
            ELSE IF Len(value.v) < 3
            THEN Str("Product name must be at least 3 characters")
            ELSE Null
      [] rule = "product.price" ->
            LET cs == IF IsArray(value) THEN value.items[1].chars
                      ELSE IF value.t = "string" THEN value.chars ELSE <<>>
                isDigit(c) == \E d \in 0..9 : c = ToString(d)
                n == CHOOSE n \in 0..Len(cs) :
                        /\ \A i \in 1..n : isDigit(cs[i])
                        /\ n = Len(cs) \/ ~isDigit(cs[n + 1])
            IN  IF n = 0 \/ NumberOf(SubSeq(cs, 1, n), 0) <= 0
                THEN Str("Price must be a positive number") ELSE Null
      [] rule = "product.category" ->
            IF ~Truthy(value) \/ value.t # "string"
            THEN Str("Category is required") ELSE Null

\* The errors object: one member for each key of the schema whose validator
\* returned a message.
ErrorsOf(schema, dataObj) ==
    LET error(i) == Validator(schema[i].rule, Member(dataObj, schema[i].key))
        rejected == {i \in 1..Len(schema) : Truthy(error(i))}
    IN  [k \in {schema[i].key : i \in rejected} |->
            error(CHOOSE i \in rejected : schema[i].key = k)]

\* (a validateData that stops at the first rejected field)
ValidateDataFirstOnly(schema, entries) ==
    LET errors == ErrorsOf(schema, DataObj(entries, NoMembers))
        first == {k \in DOMAIN errors :
                    \A i, j \in 1..Len(schema) :
                        (schema[i].key = k /\ schema[j].key \in DOMAIN errors)
                            => i <= j}
    IN  IF DOMAIN errors = {} THEN Null ELSE [k \in first |-> errors[k]]

\* validateData(formData): the errors object, or null when it has no member
ValidateData(schema, entries) ==
    LET errors == ErrorsOf(schema, DataObj(entries, NoMembers))
    IN  IF DOMAIN errors = {} THEN Null ELSE errors

\* ------------------------------- the guide's factory: processFormData
\* One round of the loop of processFormData over a text entry.
Process(processed, key, cs) ==
    IF StringOf(cs) \in {"true", "false"}
    THEN (key :> Bool(StringOf(cs) = "true")) @@ processed
    ELSE IF IsNumeric(cs)
    THEN (key :> Num(NumberOf(cs, 0))) @@ processed
    ELSE Collect(processed, key, Text(cs))

RECURSIVE ProcessFormData(_, _)
ProcessFormData(entries, processed) ==
    IF entries = <<>> THEN processed
    ELSE ProcessFormData(Tail(entries),
            Process(processed, Head(entries).key, Head(entries).value))

\* ------------------------------------ the guide's factory: ApiClient
\* The RequestConfig handed to apiClient.request; body and tags are undefined
\* when not given.
RequestConfig(m, e, b, tg) == [method |-> m, endpoint |-> e, body |-> b, tags |-> tg]

\* Parsed bodies of the remote: the record of the created entity, an object
\* with a message, the empty object.
JohnDoe ==
    [t |-> "object", v |-> "object", _id |-> "1", name |-> "John Doe",
     email |-> "john@example.com"]
ObjMessage(m) == [t |-> "object", v |-> "object", message |-> m]
EmptyObject == [t |-> "object", v |-> "object"]

\* An Error object; every value thrown under request is one.
Err(ty, m) == [type |-> ty, message |-> m]

\* How the fetch of a request settles: it rejects (the server cannot be
\* reached, the request is aborted) or resolves to a response.
FetchRejects(e) == [kind |-> "rejected", error |-> e, response |-> NoResponse]
FetchResolves(r) == [kind |-> "fulfilled", error |-> Err("", ""), response |-> r]
FetchOutcomes ==
    {FetchRejects(Err("TypeError", "fetch failed")),
     FetchRejects(Err("AbortError", "This operation was aborted"))}
        \cup {FetchResolves(Response(st, b)) :
                st \in Statuses,
                b \in {NotJson, Json(Null), Json(Num(0)), Json(Str("")),
                       Json(Bool(FALSE)), Json(JohnDoe), Json(EmptyObject),
                       Json(ObjMessage(Str("email already exists")))}}
CoreFetchOutcomes ==
    {FetchRejects(Err("TypeError", "fetch failed")),
     FetchResolves(Response(200, Json(JohnDoe))),
     FetchResolves(Response(500, NotJson))}

\* ApiResponse: {data?, error?, success}
ApiResponse(d, e, s) == [data |-> d, error |-> e, success |-> s]
NoApiResponse == [pending |-> TRUE]

\* `HTTP Error: ${response.status} ${response.statusText}`
HttpError(response) ==
    Str("HTTP Error: " \o ToString(response.status) \o " "
            \o StatusText(response.status))

\* The try block of request, from the settling of its fetch: it returns a
\* value, or throws the rejection of fetch, the TypeError of reading the
\* message of null, or the SyntaxError of response.json().
RequestTry(outcome) ==
    LET response == outcome.response
        errorData == IF response.body.parses THEN response.body.data
                     ELSE EmptyObject
        returns(r) == [kind |-> "return", value |-> r, error |-> Err("", "")]
        throws(e) == [kind |-> "throw", value |-> NoApiResponse, error |-> e]
    IN  IF outcome.kind = "rejected" THEN throws(outcome.error)
        ELSE IF ~Ok(response)
        THEN IF errorData.t = "null"
             THEN throws(Err("TypeError",
                    "Cannot read properties of null (reading 'message')"))
             ELSE returns(ApiResponse(Undefined,
                    Or(Member(errorData, "message"), HttpError(response)),
                    FALSE))
        ELSE IF ~response.body.parses
        THEN throws(Err("SyntaxError",
                "Unexpected token < in JSON at position 0"))
        ELSE returns(ApiResponse(response.body.data, Undefined, TRUE))

\* the catch block of request; error.message.includes("fetch failed") is
\* decided over the messages above
RequestCatch(error) ==
    ApiResponse(Undefined,
        IF error.type = "TypeError" /\ error.message = "fetch failed"
        THEN Str("Connection failed: Unable to reach the server. Please ensure the server is running.")
        ELSE Str("Network error: " \o error.message),
        FALSE)

\* (a request without its catch block: what is thrown leaves request)
RequestUncaught(outcome) ==
    LET c == RequestTry(outcome)
    IN  IF c.kind = "throw"
        THEN [data |-> Undefined, error |-> Undefined, success |-> FALSE,
              thrown |-> c.error]
        ELSE c.value

\* what apiClient.request resolves to
Request(outcome) ==
    LET c == RequestTry(outcome)
    IN  IF c.kind = "throw" THEN RequestCatch(c.error) ELSE c.value

\* ------------------------------- the guide's factory: createEntityActions
\* EntityConfig and schema of userActions
UserConfig ==
    [entityName |-> "user", endpoint |-> "/auth/register",
     revalidationPath |-> Str("/"), revalidationTags |-> <<"users">>]

\* EntityConfig of productActions
ProductConfig ==
    [entityName |-> "product", endpoint |-> "/products",
     revalidationPath |-> Str("/products"), revalidationTags |-> <<"products">>]

\* The calls performRevalidation makes, in order.
RevalidatePath(p) == [call |-> "revalidatePath", arg |-> p]
RevalidateTag(tg) == [call |-> "revalidateTag", arg |-> tg]

\* (a performRevalidation that leaves the tags alone)
PerformRevalidationPathOnly(config) ==
    IF Truthy(config.revalidationPath)
    THEN <<RevalidatePath(config.revalidationPath.v)>> ELSE <<>>

PerformRevalidation(config) ==
    (IF Truthy(config.revalidationPath)
     THEN <<RevalidatePath(config.revalidationPath.v)>> ELSE <<>>)
        \o [i \in 1..Len(config.revalidationTags) |->
                RevalidateTag(config.revalidationTags[i])]

\* BaseFormState: {error?, success?, data?, validationErrors?}
BaseFormState(e, s, d, ve) ==
    [error |-> e, success |-> s, data |-> d, validationErrors |-> ve]

\* what create returns when validateData found errors
ValidationFailed(validationErrors) ==
    BaseFormState(Str("Validation failed"), FALSE, Undefined, validationErrors)

\* create after its request has resolved: the value returned and the
\* revalidation calls made
CreateResult(config, result) ==
    IF result.success /\ Truthy(result.data)
    THEN [value |-> BaseFormState(Undefined, TRUE, result.data, Undefined),
          calls |-> PerformRevalidation(config)]
    ELSE [value |-> BaseFormState(
                        Or(result.error,
                           Str("Failed to create " \o config.entityName)),
                        FALSE, Undefined, Undefined),
          calls |-> <<>>]

\* update after its request has resolved: the value returned and the
\* revalidation calls made
UpdateResult(config, result) ==
    IF result.success /\ Truthy(result.data)
    THEN [value |-> BaseFormState(Undefined, TRUE, result.data, Undefined),
          calls |-> PerformRevalidation(config)]
    ELSE [value |-> BaseFormState(
                        Or(result.error,
                           Str("Failed to update " \o config.entityName)),
                        FALSE, Undefined, Undefined),
          calls |-> <<>>]

\* ---------------------------------------- the guide's factory: getAll
\* The options of getAll: undefined, or an object with some of the members.
OptionKeys == <<"page", "limit", "search", "sortBy", "sortOrder">>

\* an object literal in which the undefined members are left out
Options(p, l, s, by, o) ==
    LET all == [page |-> p, limit |-> l, search |-> s, sortBy |-> by,
                sortOrder |-> o]
    IN  [k \in {k \in DOMAIN all : ~IsUndefined(all[k])} |-> all[k]]
OptionsSets ==
    {Undefined}
        \cup {Options(p, l, s, by, o) :
                p \in {Undefined, Num(0), Num(1)},
                l \in {Undefined, Num(0), Num(10)},
                s \in {Undefined, Text(<<>>), Text(<<"a", "d", "a">>),
                       Text(<<"a", " ", "b">>)},
                by \in {Undefined, Text(<<"n", "a", "m", "e">>)},
                o \in {Undefined, Text(<<"d", "e", "s", "c">>)}}

\* options?.key
Option(options, key) ==
    IF IsUndefined(options) THEN Undefined ELSE Member(options, key)

\* The application/x-www-form-urlencoded serialisation of a value that was
\* set as value.toString(): letters and digits as they are, a space as "+".
Encoded(x) ==
    IF x.t = "number" THEN x.v
    ELSE StringOf([i \in 1..Len(x.chars) |->
                    IF x.chars[i] = " " THEN "+" ELSE x.chars[i]])

\* searchParams.set(key, value.toString())
Param(k, x) == [key |-> k, value |-> x.v, encoded |-> Encoded(x)]

\* searchParams after the five set calls: the truthy options, in order
RECURSIVE SearchParamsOf(_, _)
SearchParamsOf(options, keys) ==
    IF keys = <<>> THEN <<>>
    ELSE (IF Truthy(Option(options, Head(keys)))
          THEN <<Param(Head(keys), Option(options, Head(keys)))>>
          ELSE <<>>) \o SearchParamsOf(options, Tail(keys))

\* searchParams.toString()
RECURSIVE QueryString(_)
QueryString(params) ==
    IF params = <<>> THEN ""
    ELSE Head(params).key \o "=" \o Head(params).encoded
            \o (IF Tail(params) = <<>> THEN "" ELSE "&")
            \o QueryString(Tail(params))

\* the request of getAll, to
\* queryString ? `${endpoint}?${queryString}` : endpoint
GetAllRequest(config, options) ==
    LET queryString == QueryString(SearchParamsOf(options, OptionKeys))
    IN  RequestConfig("GET",
            IF queryString # "" THEN config.endpoint \o "?" \o queryString
            ELSE config.endpoint,
            Undefined, config.revalidationTags)

\* the request of create
CreateRequest(config, entries) ==
    RequestConfig("POST", config.endpoint,
                  ProcessFormData(entries, NoMembers), Undefined)

\* the request of update
UpdateRequest(config, id, entries) ==
    RequestConfig("PUT", config.endpoint \o "/" \o id,
                  ProcessFormData(entries, NoMembers), Undefined)

\* ------------------------------------------------------------------ state
VARIABLES
    form,          \* per session: how its Registration form invokes addUser
                   \*   (user-registration.tsx:5-13, README.md:43-59)
    state,         \* per session: the form state held by useActionState
                   \*   (README.md:50)
    submits,       \* per session: submissions made so far
    inv,           \* per session: its current invocation of addUser: where
                   \*   it is, its arguments and locals, its result, and the
                   \*   calls it has made (userActions.ts:13-56)
    revalidated,   \* revalidatePath("/") calls made so far, all sessions
                   \*   (userActions.ts:43)
    successes,     \* invocations that have returned success: true so far
                   \*   (userActions.ts:45-48)
    list,          \* the current render of the listing (UserList): where its
                   \*   getUsers call is, the response, the result
                   \*   (unnamed/part_001:58-86, userActions.ts:58-66)
    cache,         \* the cache of the view "/" (next/cache, page.tsx)
    fac,           \* the current call of an action of the guide's factory
                   \*   (userActions of unnamed/part_000:796-804, productActions
                   \*   of 876-884): where it is, the configuration of its
                   \*   factory, its arguments, the requests handed to apiClient,
                   \*   what the request resolved to, the value returned and
                   \*   the revalidation calls made (unnamed/part_000:602-666)
    boundary       \* the ErrorBoundary around the listing: its state, what
                   \*   its last render returned, what componentDidCatch has
                   \*   logged, the last operation on it and the state and
                   \*   render that operation started from
                   \*   (docs/ERROR_BOUNDARY_GUIDE.md:32-98)

vars ==
    <<form, state, submits, inv, revalidated, successes, list, cache, fac,
      boundary>>

IdleFactory ==
    [pc |-> "idle", op |-> "none", config |-> UserConfig, id |-> "",
     entries |-> <<>>, options |-> Undefined,
     params |-> <<>>, requests |-> <<>>,
     outcome |-> [kind |-> "pending", error |-> Err("", ""),
                  response |-> NoResponse],
     api |-> NoApiResponse,
     result |-> NoApiResponse, calls |-> <<>>]

IdleList ==
    [pc |-> "idle", reads |-> 0, from |-> "none", response |-> NoListResponse,
     result |-> NoListing, fetches |-> 0, startMarks |-> 0,
     startSuccesses |-> 0, heldBefore |-> -1, asOf |-> 0, view |-> NoView]

\* ------------------------------------------------ the error boundary
\* componentDidCatch calls logged before the boundary is left alone
MaxErrors == 4

\* static getDerivedStateFromError(error): the state after a child's render
\* has thrown error
GetDerivedStateFromErrorDropped(error) == [hasError |-> TRUE, error |-> Null]

GetDerivedStateFromError(error) == [hasError |-> TRUE, error |-> error]

\* render(): the fallback component when the state has an error, the
\* children otherwise
Render(st) == IF st.hasError THEN "fallback" ELSE "children"

\* the state reset() sets, which is the state of a boundary that has caught
\* nothing
NoErrorState == [hasError |-> FALSE, error |-> Null]

Wirings == {"useActionState", "formAction"}

IdleInv ==
    [pc |-> "idle", id |-> "", prevState |-> InitialState,
     formData |-> NoFormData, fetched |-> "pending", response |-> NoResponse,
     request |-> NoRequest, result |-> NoResult,
     fetches |-> 0, revals |-> 0, awaits |-> 0]

Init ==
    /\ form \in [Sessions -> Wirings]
    /\ state = [s \in Sessions |-> InitialState]
    /\ submits = [s \in Sessions |-> 0]
    /\ inv = [s \in Sessions |-> IdleInv]
    /\ revalidated = 0
    /\ successes = 0
    /\ list = IdleList
    /\ cache = NoCache
    /\ fac = IdleFactory
    /\ boundary = [state |-> NoErrorState, shown |-> Render(NoErrorState),
                   console |-> <<>>, last |-> "none",
                   before |-> [hasError |-> FALSE, error |-> Null,
                               shown |-> Render(NoErrorState)]]

\* --------------------------------------------------------------- addUser
\* (an addUser without the simulated delay: nothing is awaited on entry)
EnterNoDelay(id, prevState, formData) ==
    [IdleInv EXCEPT
        !.id = id, !.prevState = prevState, !.formData = formData,
        !.pc = IF formData.defined THEN "waiting" ELSE "thrown"]

\* addUser({id}, prevState, formData) up to its first await: the three
\* console.log lines, then wait(3000).  formData.get faults on undefined.
Enter(id, prevState, formData) ==
    [IdleInv EXCEPT
        !.id = id, !.prevState = prevState, !.formData = formData,
        !.pc = IF formData.defined THEN "waiting" ELSE "thrown",
        !.awaits = IF formData.defined THEN 1 ELSE 0]

\* (no catch block: the fault propagates)
NoCatch(c) == c

\* try { ... } catch (error) { return {error: "Failed to add user...", ...} }
TryCatch(c) == IF c.kind = "throw" THEN Returns(CatchState, c.revalidations) ELSE c

\* (an error branch that also invalidates the cache)
ErrorBranchRevalidates(response) ==
    IF JsonRejects(response.body) \/ MessageReadFaults(response.body)
      THEN Throws(0)
      ELSE Returns(RejectionState(response.body, response.status), 1)

\* The !response.ok branch once response.json() settles.
ErrorBranch(response) ==
    IF JsonRejects(response.body) \/ MessageReadFaults(response.body)
      THEN Throws(0)
      ELSE Returns(RejectionState(response.body, response.status), 0)

\* (a success path that never invalidates the cache)
DataBranchNoRevalidate(response) ==
    IF JsonRejects(response.body) THEN Throws(0) ELSE Returns(SuccessState, 0)

\* (a success path that invalidates the cache before it reads the body)
DataBranchRevalidateFirst(response) ==
    IF JsonRejects(response.body) THEN Throws(1) ELSE Returns(SuccessState, 1)

\* The success path once response.json() settles: console.log(data),
\* revalidatePath("/"), return.
DataBranch(response) ==
    IF JsonRejects(response.body) THEN Throws(0) ELSE Returns(SuccessState, 1)

\* What the caller does with the returned FormState.
Deliver(s, c) ==
    /\ state' = IF c.kind = "return" /\ form[s] = "useActionState"
                  THEN [state EXCEPT ![s] = c.value] ELSE state
    /\ successes' = IF c.kind = "return" /\ c.value.success
                      THEN successes + 1 ELSE successes

\* (a handler that builds its success value on top of prevState, as in
\* return {...prevState, success: true}, so that an earlier error survives)
FinishSpreadsPrev(s, f, c) ==
    /\ inv' = [inv EXCEPT ![s] =
                [@ EXCEPT !.pc = IF c.kind = "return" THEN "returned" ELSE "thrown",
                          !.fetched = f,
                          !.result = IF c.kind = "return" /\ c.value.success
                                       THEN FormState(inv[s].prevState.error, TRUE)
                                       ELSE c.value,
                          !.revals = @ + c.revalidations]]
    /\ revalidated' = revalidated + c.revalidations
    /\ cache' = MarkStale(cache, RevalidatedPath, c.revalidations)
    /\ Deliver(s, c)

\* The invocation of session s ends with completion c, its fetch having
\* settled as f.
Finish(s, f, c) ==
    /\ inv' = [inv EXCEPT ![s] =
                [@ EXCEPT !.pc = IF c.kind = "return" THEN "returned" ELSE "thrown",
                          !.fetched = f,
                          !.result = c.value,
                          !.revals = @ + c.revalidations]]
    /\ revalidated' = revalidated + c.revalidations
    /\ cache' = MarkStale(cache, RevalidatedPath, c.revalidations)
    /\ Deliver(s, c)

\* useFormStatus().pending inside the form: a submission of the form has
\* started and its action has not settled yet.
Pending(i) == i.pc \in {"waiting", "fetching", "parsingData", "parsingError"}

\* (a Button that stays enabled during a submission)
ButtonAlwaysEnabled(pending) ==
    [disabled |-> FALSE,
     label |-> IF pending THEN "Registering..." ELSE "Register User"]

\* <Button />: the submit button of the form, the only way to submit it
Button(pending) ==
    [disabled |-> pending,
     label |-> IF pending THEN "Registering..." ELSE "Register User"]

\* The form of a client component: useActionState calls
\* addUser({id}, state, formData).
SubmitActionState(s, fds) ==
    /\ form[s] = "useActionState"
    /\ ~Button(Pending(inv[s])).disabled
    /\ submits[s] < MaxSubmit
    /\ \E fd \in fds :
        inv' = [inv EXCEPT ![s] = Enter("12345", state[s], fd)]
    /\ submits' = [submits EXCEPT ![s] = @ + 1]
    /\ UNCHANGED <<form, state, revalidated, successes, list, cache, fac, boundary>>

\* The form of user-registration.tsx: addUser.bind(null, {id}) is the form
\* action itself, so it is called with the FormData as its second argument
\* and no third argument.
SubmitFormAction(s, fds) ==
    /\ form[s] = "formAction"
    /\ ~Button(Pending(inv[s])).disabled
    /\ submits[s] < MaxSubmit
    /\ \E fd \in fds :
        inv' = [inv EXCEPT ![s] = Enter("12345", fd, NoFormData)]
    /\ submits' = [submits EXCEPT ![s] = @ + 1]
    /\ UNCHANGED <<form, state, revalidated, successes, list, cache, fac, boundary>>

\* wait(3000), the simulated delay, resolves; addUser enters the try block
\* and calls fetch.
CallFetch(s) ==
    /\ inv[s].pc = "waiting"
    /\ inv' = [inv EXCEPT ![s] =
                [@ EXCEPT !.pc = "fetching",
                          !.request = RegisterRequest(inv[s].formData),
                          !.fetches = @ + 1,
                          !.awaits = @ + 1]]
    /\ UNCHANGED <<form, state, submits, revalidated, successes, list, cache, fac, boundary>>

\* (a handler that calls fetch a second time when the first call rejects)
FetchRejectedRetry(s) ==
    /\ inv[s].pc = "fetching"
    /\ IF inv[s].fetches < 2
         THEN /\ inv' = [inv EXCEPT ![s] = [@ EXCEPT !.fetches = @ + 1]]
              /\ UNCHANGED <<state, revalidated, successes, cache>>
         ELSE Finish(s, "rejected", TryCatch(Throws(0)))
    /\ UNCHANGED <<form, submits, list, fac, boundary>>

\* fetch rejects (connection refused, timeout, DNS failure).
FetchRejected(s) ==
    /\ inv[s].pc = "fetching"
    /\ Finish(s, "rejected", TryCatch(Throws(0)))
    /\ UNCHANGED <<form, submits, list, fac, boundary>>

\* fetch resolves with a response; either branch calls response.json().
FetchFulfilled(s, responses) ==
    /\ inv[s].pc = "fetching"
    /\ \E r \in responses :
        inv' = [inv EXCEPT ![s] =
                 [@ EXCEPT !.fetched = "fulfilled",
                           !.response = r,
                           !.pc = IF Ok(r) THEN "parsingData" ELSE "parsingError",
                           !.awaits = @ + 1]]
    /\ UNCHANGED <<form, state, submits, revalidated, successes, list, cache, fac, boundary>>

\* (a handler that keeps the response in a variable of the module, shared by
\* all invocations, here the one the first session stored)
ErrorBodySettledShared(s) ==
    /\ inv[s].pc = "parsingError"
    /\ Finish(s, "fulfilled", TryCatch(ErrorBranch(inv[Primary].response)))
    /\ UNCHANGED <<form, submits, list, fac, boundary>>

\* response.json() of a non-success response settles.
ErrorBodySettled(s) ==
    /\ inv[s].pc = "parsingError"
    /\ Finish(s, "fulfilled", TryCatch(ErrorBranch(inv[s].response)))
    /\ UNCHANGED <<form, submits, list, fac, boundary>>

\* response.json() of a success response settles.
DataBodySettled(s) ==
    /\ inv[s].pc = "parsingData"
    /\ Finish(s, "fulfilled", TryCatch(DataBranch(inv[s].response)))
    /\ UNCHANGED <<form, submits, list, fac, boundary>>

\* -------------------------------------------------------------- getUsers
\* The getUsers call of the render l of the listing ends with completion c
\* and UserList renders its view; the rendering is held by the cache of the
\* view, stamped with the marks of the moment it began.
Rendered(l, c) ==
    /\ list' = [l EXCEPT !.pc = IF c.kind = "return" THEN "returned" ELSE "thrown",
                         !.result = c.value,
                         !.view = IF c.kind = "return" THEN UserListView(c.value)
                                  ELSE NoView]
    /\ cache' = IF c.kind = "return" /\ UserListView(c.value) # RenderThrows
                  THEN [cache EXCEPT !.held = TRUE,
                                     !.heldMarks = l.startMarks,
                                     !.asOf = l.asOf,
                                     !.rendering = c.value]
                  ELSE cache

\* A render that begins now, its data coming from `from`.
Begin(from) ==
    [IdleList EXCEPT !.reads = list.reads + 1, !.from = from,
                     !.startMarks = cache.marks,
                     !.startSuccesses = successes,
                     !.heldBefore = IF cache.held THEN cache.asOf ELSE -1,
                     !.asOf = successes]

\* A render may begin: none is under way and the bound is not reached.
MayRender == list.pc \in {"idle", "returned", "served", "thrown"} /\ list.reads < MaxReads

\* The view is read while the held rendering is fresh: it is served as held.
ServeCached ==
    /\ MayRender /\ Fresh(cache)
    /\ list' = [Begin("cache") EXCEPT !.pc = "served",
                                      !.result = cache.rendering,
                                      !.view = UserListView(cache.rendering),
                                      !.asOf = cache.asOf]
    /\ UNCHANGED <<form, state, submits, inv, revalidated, successes, cache, fac, boundary>>

\* UserList calls getUsers of src/actions/userActions.ts, which returns []
\* without a remote call.
GetUsersStub ==
    /\ MayRender /\ ~Fresh(cache)
    /\ Rendered(Begin("stub"), Returns(ListingStub, 0))
    /\ UNCHANGED <<form, state, submits, inv, revalidated, successes, fac, boundary>>

\* UserList calls getUsers (the version with the fetch), which calls fetch.
GetUsersCall ==
    /\ MayRender /\ ~Fresh(cache)
    /\ list' = [Begin("fetch") EXCEPT !.pc = "fetching", !.fetches = 1]
    /\ UNCHANGED <<form, state, submits, inv, revalidated, successes, cache, fac, boundary>>

\* fetch rejects: the catch block of getUsers.
GetUsersRejected ==
    /\ list.pc = "fetching"
    /\ Rendered(list, ListingTry(Throws(0)))
    /\ UNCHANGED <<form, state, submits, inv, revalidated, successes, fac, boundary>>

\* fetch resolves: with a non-success status getUsers returns at once, else
\* it calls res.json().
GetUsersFulfilled(responses) ==
    /\ list.pc = "fetching"
    /\ \E r \in responses :
        IF Ok(r)
          THEN /\ list' = [list EXCEPT !.pc = "parsing", !.response = r]
               /\ UNCHANGED cache
          ELSE Rendered([list EXCEPT !.response = r],
                        ListingTry(Returns(ListingHttpError(r), 0)))
    /\ UNCHANGED <<form, state, submits, inv, revalidated, successes, fac, boundary>>

\* res.json() settles.
GetUsersBodySettled ==
    /\ list.pc = "parsing"
    /\ Rendered(list, ListingTry(ListingParsed(list.response.body)))
    /\ UNCHANGED <<form, state, submits, inv, revalidated, successes, fac, boundary>>

\* ---------------------------------------------------------- specifications
\* One session, every form input and every remote outcome.
Next ==
    \/ SubmitActionState(Primary, FormDatas)
    \/ SubmitFormAction(Primary, FormDatas)
    \/ CallFetch(Primary)
    \/ FetchRejected(Primary)
    \/ FetchFulfilled(Primary, Responses)
    \/ ErrorBodySettled(Primary)
    \/ DataBodySettled(Primary)

Spec == Init /\ [][Next]_vars

\* Several sessions whose invocations interleave at the awaits.
NextConc ==
    \E s \in Sessions :
        \/ SubmitActionState(s, CoreFormDatas)
        \/ SubmitFormAction(s, CoreFormDatas)
        \/ CallFetch(s)
        \/ FetchRejected(s)
        \/ FetchFulfilled(s, CoreResponses)
        \/ ErrorBodySettled(s)
        \/ DataBodySettled(s)

SpecConc == Init /\ [][NextConc]_vars

\* Renders of the listing alone, every response of the listing endpoint.
NextList ==
    \/ ServeCached
    \/ GetUsersStub
    \/ GetUsersCall
    \/ GetUsersRejected
    \/ GetUsersFulfilled(ListResponses)
    \/ GetUsersBodySettled

SpecList == Init /\ [][NextList]_vars

\* Submissions of several sessions interleaved with renders of the listing.
AcceptOrReject ==
    {Response(200, Obj(Undefined, UserRecord)),
     Response(400, Obj(Str("email already exists"), NoRecord))}

NextCache ==
    \/ \E s \in Sessions :
          \/ SubmitActionState(s, CoreFormDatas)
          \/ CallFetch(s)
          \/ FetchFulfilled(s, AcceptOrReject)
          \/ ErrorBodySettled(s)
          \/ DataBodySettled(s)
    \/ ServeCached
    \/ GetUsersCall
    \/ GetUsersFulfilled(CoreListResponses)
    \/ GetUsersBodySettled

InitCache == Init /\ form = [s \in Sessions |-> "useActionState"]

SpecCache == InitCache /\ [][NextCache]_vars

\* ------------------------------------------------- the guide's factory
\* userActions.create up to its await: validateData, and when it finds no
\* error processFormData and the call of apiClient.request.
CreateCall(forms) ==
    /\ fac.pc \in {"idle", "returned"}
    /\ \E entries \in forms :
          LET validationErrors == ValidateData(UserSchema, entries)
              call == [IdleFactory EXCEPT !.op = "create", !.entries = entries]
          IN  \* if (validationErrors): an errors object, not null
              IF DOMAIN validationErrors # DOMAIN Null
              THEN fac' = [call EXCEPT !.pc = "returned",
                                       !.result = ValidationFailed(validationErrors)]
              ELSE fac' = [call EXCEPT !.pc = "requesting",
                                       !.requests = <<CreateRequest(UserConfig, entries)>>]
    /\ UNCHANGED <<form, state, submits, inv, revalidated, successes, list, cache, boundary>>

\* userActions.create from the resolution of apiClient.request to its return
CreateSettled(outcomes) ==
    /\ fac.pc = "requesting" /\ fac.op = "create"
    /\ \E outcome \in outcomes :
          LET result == Request(outcome)
              done == CreateResult(UserConfig, result)
          IN  fac' = [fac EXCEPT !.pc = "returned", !.outcome = outcome,
                                 !.api = result,
                                 !.result = done.value, !.calls = done.calls]
    /\ UNCHANGED <<form, state, submits, inv, revalidated, successes, list, cache, boundary>>

\* userActions.getAll(options) up to the call of apiClient.request
GetAllCall(optionsSets) ==
    /\ fac.pc \in {"idle", "returned"}
    /\ \E options \in optionsSets :
          fac' = [IdleFactory EXCEPT
                    !.pc = "requesting", !.op = "getAll", !.options = options,
                    !.params = SearchParamsOf(options, OptionKeys),
                    !.requests = <<GetAllRequest(UserConfig, options)>>]
    /\ UNCHANGED <<form, state, submits, inv, revalidated, successes, list, cache, boundary>>

\* getAll returns what apiClient.request resolves to
GetAllSettled(outcomes) ==
    /\ fac.pc = "requesting" /\ fac.op = "getAll"
    /\ \E outcome \in outcomes :
          fac' = [fac EXCEPT !.pc = "returned", !.outcome = outcome,
                             !.api = Request(outcome),
                             !.result = Request(outcome)]
    /\ UNCHANGED <<form, state, submits, inv, revalidated, successes, list, cache, boundary>>

\* update({id}, prevState, formData) of the actions made with config and
\* schema, up to its await: the call after it.
Update(config, schema, id, entries) ==
    LET validationErrors == ValidateData(schema, entries)
        call == [IdleFactory EXCEPT !.op = "update", !.config = config,
                                    !.id = id, !.entries = entries]
    IN  IF DOMAIN validationErrors # DOMAIN Null
        THEN [call EXCEPT !.pc = "returned",
                          !.result = ValidationFailed(validationErrors)]
        ELSE [call EXCEPT !.pc = "requesting",
                          !.requests = <<UpdateRequest(config, id, entries)>>]

\* updateUser = userActions.update is called
UpdateCall(ids, forms) ==
    /\ fac.pc \in {"idle", "returned"}
    /\ \E id \in ids, entries \in forms :
          fac' = Update(UserConfig, UserSchema, id, entries)
    /\ UNCHANGED <<form, state, submits, inv, revalidated, successes, list, cache, boundary>>

\* toggleProductStock({id}, prevState, formData): a new FormData with the
\* inStock field alone goes to productActions.update
ToggleProductStock(ids, forms) ==
    /\ fac.pc \in {"idle", "returned"}
    /\ \E id \in ids, formData \in forms :
          LET got == SelectSeq(formData, LAMBDA e : e.key = "inStock")
              inStock == got # <<>> /\ StringOf(got[1].value) = "true"
              updateData ==
                  <<Entry("inStock", IF inStock THEN <<"t", "r", "u", "e">>
                                     ELSE <<"f", "a", "l", "s", "e">>)>>
          IN  fac' = [Update(ProductConfig, ProductSchema, id, updateData)
                        EXCEPT !.op = "toggleProductStock"]
    /\ UNCHANGED <<form, state, submits, inv, revalidated, successes, list, cache, boundary>>

\* update from the resolution of apiClient.request to its return
UpdateSettled(outcomes) ==
    /\ fac.pc = "requesting" /\ fac.op \in {"update", "toggleProductStock"}
    /\ \E outcome \in outcomes :
          LET result == Request(outcome)
              done == UpdateResult(fac.config, result)
          IN  fac' = [fac EXCEPT !.pc = "returned", !.outcome = outcome,
                                 !.api = result,
                                 !.result = done.value, !.calls = done.calls]
    /\ UNCHANGED <<form, state, submits, inv, revalidated, successes, list, cache, boundary>>

\* Calls of the actions of userActions and productActions, one at a time.
NextFactory ==
    \/ CreateCall(Forms)
    \/ CreateSettled(FetchOutcomes)
    \/ UpdateCall({"7"},
            {<<Entry("name", JohnDoeName), Entry("email", JohnDoeEmail)>>,
             <<Entry("name", <<>>)>>})
    \/ ToggleProductStock({"7"},
            {<<>>, <<Entry("inStock", <<"t", "r", "u", "e">>)>>,
             <<Entry("inStock", <<"f", "a", "l", "s", "e">>)>>,
             <<Entry("inStock", <<"o", "n">>)>>})
    \/ UpdateSettled(FetchOutcomes)
    \/ GetAllCall(OptionsSets)
    \/ GetAllSettled(CoreFetchOutcomes)

SpecFactory == InitCache /\ [][NextFactory]_vars

\* ------------------------------------------- the error boundary: steps
\* A child throws error while it is rendered: React takes the state from
\* getDerivedStateFromError, renders the boundary again and then calls
\* componentDidCatch, which logs the error.
ChildThrows(errors) ==
    /\ boundary.shown = "children"
    /\ Len(boundary.console) < MaxErrors
    /\ \E error \in errors :
          LET st == GetDerivedStateFromError(error)
          IN  boundary' = [state |-> st, shown |-> Render(st),
                           console |-> Append(boundary.console, error),
                           last |-> "error",
                           before |-> [hasError |-> boundary.state.hasError,
                                       error |-> boundary.state.error,
                                       shown |-> boundary.shown]]
    /\ UNCHANGED <<form, state, submits, inv, revalidated, successes, list,
                   cache, fac>>

\* reset(): setState({hasError: false, error: null}) and the render that
\* follows it.  The fallback receives reset as a prop; as a method of the
\* instance it can be called in any state.
Reset ==
    /\ boundary' = [boundary EXCEPT !.state = NoErrorState,
                                    !.shown = Render(NoErrorState),
                                    !.last = "reset",
                                    !.before =
                                        [hasError |-> boundary.state.hasError,
                                         error |-> boundary.state.error,
                                         shown |-> boundary.shown]]
    /\ UNCHANGED <<form, state, submits, inv, revalidated, successes, list,
                   cache, fac>>

\* The errors a render of the children throws: the listing's own
\* (result.users.map is not a function) and two others.
NextBoundary ==
    \/ ChildThrows({Err("TypeError", RenderThrows.text),
                    Err("TypeError", "Cannot read properties of null"),
                    Err("Error", "Failed to load")})
    \/ Reset

SpecBoundary == Init /\ [][NextBoundary]_vars

\* ------------------------------------------------------------------ claims
\* The remote conditions of an invocation, read off its record.
Returned(s) == inv[s].pc = "returned"
CannotComplete(s) == inv[s].fetched = "rejected"
NonSuccessStatus(s) == inv[s].fetched = "fulfilled" /\ ~Ok(inv[s].response)
SuccessStatus(s) == inv[s].fetched = "fulfilled" /\ Ok(inv[s].response)
RemoteAccepts(s) == SuccessStatus(s) /\ ~JsonRejects(inv[s].response.body)

\* A value of type FormState: the members error and success, success a boolean.
IsFormState(r) == DOMAIN r = {"error", "success"} /\ r.success \in BOOLEAN

\* The steps that settle an invocation whose outbound call is in flight.
Settles(s) ==
    \/ FetchRejected(s)
    \/ FetchFulfilled(s, Responses)
    \/ ErrorBodySettled(s)
    \/ DataBodySettled(s)

\* C1: an invocation that has issued its outbound call never ends with a
\* fault escaping to the caller: whichever way the remote call goes (accepted,
\* non-success status, cannot complete) it is either still able to settle or
\* has returned a FormState value.
C1_NoFaultEscapes ==
    \A s \in Sessions :
        inv[s].fetches > 0 =>
            /\ inv[s].pc # "thrown"
            /\ Returned(s) => IsFormState(inv[s].result)
            /\ ~Returned(s) => ENABLED Settles(s)

\* a fault raised inside the try block (reading .message of null) was caught
C1_Witness ==
    \E s \in Sessions :
        /\ Returned(s) /\ NonSuccessStatus(s)
        /\ inv[s].response.body = JsonNull
        /\ IsFormState(inv[s].result)

\* C2: valid fields and an accepted call give success: true, error undefined
\* and exactly one revalidatePath("/") call in that invocation.
C2_SuccessRevalidatesOnce ==
    \A s \in Sessions :
        (Returned(s) /\ Valid(inv[s].formData) /\ RemoteAccepts(s)) =>
            /\ inv[s].result = FormState(Undefined, TRUE)
            /\ inv[s].revals = 1

C2_Witness ==
    \E s \in Sessions :
        /\ Returned(s) /\ Valid(inv[s].formData) /\ RemoteAccepts(s)
        /\ inv[s].response.body.data = UserRecord
        /\ inv[s].revals = 1

\* The message the remote supplied with a rejection, when it supplied one.
RemoteMessage(s) ==
    IF inv[s].response.body.kind = "object" THEN inv[s].response.body.message
                                            ELSE Undefined

\* C3 (as claimed): valid fields and a non-success status give success: false
\* with the remote's message if it supplied one, else the generic server-error
\* message, and no cache invalidation.
C3_RejectionMessage ==
    \A s \in Sessions :
        (Returned(s) /\ Valid(inv[s].formData) /\ NonSuccessStatus(s)) =>
            /\ inv[s].result.success = FALSE
            /\ inv[s].result.error =
                   IF Truthy(RemoteMessage(s)) THEN RemoteMessage(s)
                   ELSE ServerError(inv[s].response.status)
            /\ inv[s].revals = 0

\* C4: valid fields and a call that cannot reach the remote give success:
\* false with the one connectivity message, the same text for every input and
\* run, and no cache invalidation.
C4_ConnectivityFailure ==
    \A s \in Sessions :
        (Returned(s) /\ Valid(inv[s].formData) /\ CannotComplete(s)) =>
            /\ inv[s].result = FormState(ConnectivityMessage, FALSE)
            /\ ConnectivityMessage.v =
                 "Failed to add user. Please check your network connection and try again."
            /\ inv[s].revals = 0

C4_Witness ==
    \E s \in Sessions :
        /\ Returned(s) /\ Valid(inv[s].formData) /\ CannotComplete(s)
        /\ inv[s].formData.email = "bob@example.com"
        /\ inv[s].result.success = FALSE

\* C5 (as claimed): every returned result has exactly one side populated: a
\* success has no error, a failure has a non-empty text as its error, and
\* there is no further member.
C5_OneSidePopulated ==
    \A s \in Sessions :
        (Returned(s) /\ Valid(inv[s].formData)) =>
            /\ IsFormState(inv[s].result)
            /\ inv[s].result.success => inv[s].result.error = Undefined
            /\ ~inv[s].result.success =>
                   /\ inv[s].result.error.t = "string"
                   /\ inv[s].result.error.v # ""

C7_RejectionNeverConnectivity ==
    \A s \in Sessions :
        (Returned(s) /\ Valid(inv[s].formData) /\ NonSuccessStatus(s)) =>
            inv[s].result.error # ConnectivityMessage

\* C8: a success status with a body that is not JSON gives the connectivity
\* failure and no cache invalidation; an invocation has invalidated the cache
\* only once the body of a success response has been parsed.
C8_MalformedSuccessBody ==
    \A s \in Sessions :
        /\ (Returned(s) /\ SuccessStatus(s) /\ JsonRejects(inv[s].response.body)) =>
              /\ inv[s].result = FormState(ConnectivityMessage, FALSE)
              /\ inv[s].revals = 0
        /\ inv[s].revals > 0 => (Returned(s) /\ RemoteAccepts(s))

C8_Witness ==
    \E s \in Sessions :
        /\ Returned(s) /\ SuccessStatus(s)
        /\ inv[s].response.body = Unparsable
        /\ inv[s].result.success = FALSE

\* C9: under every interleaving the revalidatePath calls made so far are as
\* many as the invocations that have returned success; a returned failure has
\* made none and a returned success has made one.
C9_InvalidationOnSuccessOnly ==
    /\ revalidated = successes
    /\ \A s \in Sessions :
          Returned(s) => inv[s].revals = (IF inv[s].result.success THEN 1 ELSE 0)

\* two sessions have both returned, one a success and one a failure, and a
\* third invocation is in flight
C9_Witness ==
    \E s1, s2 \in Sessions :
        /\ Returned(s1) /\ inv[s1].result.success
        /\ submits[s1] = MaxSubmit
        /\ inv[s2].pc = "parsingError"
        /\ state[s2].success = FALSE /\ submits[s2] = MaxSubmit
        /\ revalidated >= 1

\* C10: an invocation makes at most one outbound call, a POST to the register
\* endpoint, and exactly one once it has returned, whatever the result; after
\* it has returned nothing of it is left to run.
C10_OneOutboundCall ==
    \A s \in Sessions :
        /\ inv[s].fetches <= 1
        /\ inv[s].fetches = 1 =>
              /\ inv[s].request.url = RegisterUrl
              /\ inv[s].request.method = "POST"
        /\ Returned(s) =>
              /\ inv[s].fetches = 1
              /\ ~ENABLED (CallFetch(s) \/ Settles(s))

C10_Witness ==
    \E s \in Sessions :
        /\ Returned(s) /\ CannotComplete(s)
        /\ inv[s].fetches = 1
        /\ submits[s] = MaxSubmit

\* What an invocation returns, as a function of its own fetch settlement and
\* its own response alone.
OwnOutcome(i) ==
    IF i.fetched = "rejected" THEN FormState(ConnectivityMessage, FALSE)
    ELSE IF i.response.body.kind = "unparsable"
      THEN FormState(ConnectivityMessage, FALSE)
    ELSE IF Ok(i.response) THEN FormState(Undefined, TRUE)
    ELSE IF i.response.body.kind = "null"
      THEN FormState(ConnectivityMessage, FALSE)
    ELSE IF i.response.body.kind = "object" /\ Truthy(i.response.body.message)
      THEN FormState(i.response.body.message, FALSE)
    ELSE FormState(ServerError(i.response.status), FALSE)

\* C12: invocations of independent sessions are independent under every
\* interleaving: a step of one session leaves the invocation, the form state
\* and the submission count of every other session as they were, and what an
\* invocation returns is determined by its own fields and its own response.
C12_InvocationsIndependent ==
    [][ /\ \A s, u \in Sessions :
              (s # u /\ inv'[s] # inv[s]) =>
                  /\ inv'[u] = inv[u]
                  /\ state'[u] = state[u]
                  /\ submits'[u] = submits[u]
        /\ \A s \in Sessions :
              (inv'[s].pc = "returned") =>
                  /\ inv'[s].result = OwnOutcome(inv'[s])
                  /\ inv'[s].request = RegisterRequest(inv'[s].formData)
      ]_vars

\* two sessions have returned different results
C12_Witness ==
    \E s, u \in Sessions :
        /\ s # u /\ Returned(s) /\ Returned(u)
        /\ inv[s].result.success /\ ~inv[u].result.success
        /\ inv[u].result.error = Str("email already exists")

\* C14 (as claimed): an invocation that has returned has suspended once.
C14_OneSuspension ==
    \A s \in Sessions : Returned(s) => inv[s].awaits = 1

\* C14 (amended): an invocation suspends at the simulated delay, at the
\* outbound call and, once the call is answered, at the reading of the body:
\* three times when it returns after a response, twice when fetch rejects.
C14_ThreeSuspensions ==
    \A s \in Sessions :
        /\ inv[s].pc = "waiting" => inv[s].awaits = 1
        /\ inv[s].pc = "fetching" => inv[s].awaits = 2
        /\ inv[s].pc \in {"parsingError", "parsingData"} => inv[s].awaits = 3
        /\ Returned(s) =>
              inv[s].awaits = (IF CannotComplete(s) THEN 2 ELSE 3)

C14_Witness ==
    \E s \in Sessions :
        Returned(s) /\ RemoteAccepts(s) /\ inv[s].awaits = 3

\* C15: what addUser returns does not depend on prevState: a submission the
\* remote accepts returns success and invalidates once also when it follows
\* a failure, the form state then is that success, and after a failure the
\* form can be submitted again.
C15_FailureRecoverable ==
    \A s \in Sessions :
        /\ (Returned(s) /\ RemoteAccepts(s)) =>
              /\ inv[s].result = FormState(Undefined, TRUE)
              /\ inv[s].revals = 1
              /\ state[s] = FormState(Undefined, TRUE)
        /\ (Returned(s) /\ ~inv[s].result.success /\ submits[s] < MaxSubmit) =>
              ENABLED SubmitActionState(s, FormDatas)

\* a success that follows a failure
C15_Witness ==
    \E s \in Sessions :
        /\ Returned(s) /\ RemoteAccepts(s)
        /\ inv[s].prevState.success = FALSE
        /\ inv[s].prevState.error = ConnectivityMessage
        /\ inv[s].result.success

\* C16 (as claimed): the form is driven by useActionState: once a submission
\* has ended, addUser has returned and the form state is its result.
C16_ResultReachesForm ==
    \A s \in Sessions :
        inv[s].pc \in {"returned", "thrown"} =>
            /\ form[s] = "useActionState"
            /\ Returned(s)
            /\ state[s] = inv[s].result

\* C20 (as claimed): a submission of the form of user-registration.tsx
\* reaches addUser with the FormData as formData and raises no fault before
\* the try block.
C20_FormActionReachesAddUser ==
    \A s \in Sessions :
        (form[s] = "formAction" /\ inv[s].pc # "idle") =>
            /\ inv[s].formData.defined
            /\ inv[s].pc # "thrown"

\* C11 (as claimed): getUsers never throws, and what it returns is either a
\* sequence of records with no error, or a failure message with the empty
\* sequence of records.
C11_TwoOutcomeListing ==
    /\ list.pc # "thrown"
    /\ list.pc = "returned" =>
          IF list.from = "stub" THEN IsArray(list.result)
          ELSE /\ DOMAIN list.result = {"users", "error"}
               /\ \/ /\ list.result.error = Null
                     /\ IsArray(list.result.users)
                  \/ /\ list.result.error.t = "string"
                     /\ list.result.error.v # ""
                     /\ list.result.users = Arr(<<>>)

Rejected(entries) ==
    {k \in {"name", "email"} :
        Truthy(Validator("user." \o k, Member(DataObj(entries, NoMembers), k)))}

\* how often a call occurs among the revalidation calls made
Occurrences(c, calls) == Cardinality({i \in 1..Len(calls) : calls[i] = c})

\* C17 (as claimed): every option supplied to getAll is in the query of the
\* request with exactly the supplied value.
C17_OptionsForwardedVerbatim ==
    (fac.op = "getAll" /\ fac.pc # "idle" /\ ~IsUndefined(fac.options)) =>
        \A k \in DOMAIN fac.options :
            \E i \in 1..Len(fac.params) :
                /\ fac.params[i].key = k
                /\ fac.params[i].value = fac.options[k].v

\* C18: a create whose form has a field that a validator of the schema
\* rejects returns success false, the error "Validation failed" and
\* validationErrors with a message for exactly the rejected fields, and it
\* has made no request and no revalidation call.
C18_ValidationFailure ==
    (fac.op = "create" /\ fac.pc = "returned"
        /\ Rejected(fac.entries) # {}) =>
        /\ fac.result.success = FALSE
        /\ fac.result.error = Str("Validation failed")
        /\ ~IsUndefined(fac.result.validationErrors)
        /\ DOMAIN fac.result.validationErrors = Rejected(fac.entries)
        /\ \A k \in Rejected(fac.entries) :
              Truthy(fac.result.validationErrors[k])
        /\ fac.requests = <<>>
        /\ fac.calls = <<>>

\* the form of the guide's test: an empty name and an invalid e-mail
C18_Witness ==
    /\ fac.op = "create" /\ fac.pc = "returned"
    /\ fac.entries = <<Entry("name", <<>>), Entry("email", InvalidEmail)>>
    /\ Rejected(fac.entries) = {"name", "email"}
    /\ fac.result.validationErrors.email = Str("Please enter a valid email address")

\* C19: a create whose form passes validation and whose request resolves
\* to success with data returns success true, that data and no error, after
\* one request, one revalidatePath of the configured path and one
\* revalidateTag of every configured tag, and nothing else.
C19_CreateSuccess ==
    (fac.op = "create" /\ fac.pc = "returned" /\ fac.requests # <<>>
        /\ fac.api.success /\ Truthy(fac.api.data)) =>
        /\ fac.result.success = TRUE
        /\ fac.result.data = fac.api.data
        /\ IsUndefined(fac.result.error)
        /\ Len(fac.requests) = 1
        /\ Occurrences(RevalidatePath("/"), fac.calls) = 1
        /\ \A i \in 1..Len(UserConfig.revalidationTags) :
              Occurrences(RevalidateTag(UserConfig.revalidationTags[i]),
                          fac.calls) = 1
        /\ Len(fac.calls) = 1 + Len(UserConfig.revalidationTags)

\* the guide's test: the form of John Doe, the remote answers his record
C19_Witness ==
    /\ fac.op = "create" /\ fac.pc = "returned"
    /\ fac.entries = <<Entry("name", JohnDoeName), Entry("email", JohnDoeEmail)>>
    /\ fac.api.success /\ fac.api.data = JohnDoe
    /\ fac.result.success

\* C21: the request an invocation hands to fetch is a POST to the register
\* endpoint whose body has the members name and email and no other, with the
\* values of the submitted form as they were entered.
C21_RequestCarriesNameAndEmail ==
    \A s \in Sessions :
        inv[s].fetches >= 1 =>
            /\ inv[s].request.method = "POST"
            /\ inv[s].request.url = "http://localhost:5000/api/v1/auth/register"
            /\ DOMAIN inv[s].request.body = {"name", "email"}
            /\ inv[s].request.body.name = inv[s].formData.name
            /\ inv[s].request.body.email = inv[s].formData.email

\* the second submission of a session, with a form that differs from the
\* prevState it is called with, has issued its request
C21_Witness ==
    \E s \in Sessions :
        /\ submits[s] = MaxSubmit /\ inv[s].fetches = 1
        /\ inv[s].prevState.success = TRUE
        /\ inv[s].formData = FormData("", "bob@example.com")

\* C22: the button of a form is disabled and reads "Registering..." while
\* an invocation started from the form is between its start and its end, and
\* is enabled and reads "Register User" otherwise; while it is disabled no
\* submission of the form can start, and it is enabled once addUser has
\* returned.
C22_ButtonFollowsPending ==
    \A s \in Sessions :
        LET button == Button(Pending(inv[s]))
            inFlight == inv[s].pc \notin {"idle", "returned", "thrown"}
        IN  /\ inFlight => button = [disabled |-> TRUE, label |-> "Registering..."]
            /\ ~inFlight => button = [disabled |-> FALSE, label |-> "Register User"]
            /\ inFlight =>
                  ~ENABLED (SubmitActionState(s, FormDatas)
                                \/ SubmitFormAction(s, FormDatas))
            /\ Returned(s) => ~button.disabled

\* a submission is in flight, its button disabled, and the session has
\* submissions left to make
C22_Witness ==
    \E s \in Sessions :
        /\ inv[s].pc = "fetching" /\ submits[s] < MaxSubmit
        /\ Button(Pending(inv[s])).disabled

\* C23 (as claimed): for every result of getUsers UserList renders one of
\* three views: the banner with the message when the result carries an
\* error, else one row for each record, numbered from 1 in the order of the
\* result, when there are records, else "No users found.".
C23_OneOfThreeViews ==
    (list.pc = "returned" /\ list.from = "fetch") =>
        /\ list.view.kind \in {"error", "list", "empty"}
        /\ list.view.kind = "error" <=> list.result.error # Null
        /\ list.view.kind = "error" =>
              /\ list.view.text = list.result.error.v
              /\ list.view.rows = <<>>
        /\ list.view.kind = "list" =>
              /\ Len(list.view.rows) = Len(list.result.users.items)
              /\ \A i \in 1..Len(list.view.rows) :
                    /\ list.view.rows[i].number = i
                    /\ list.view.rows[i].name = list.result.users.items[i].name
        /\ list.view.kind = "empty" => list.view.text = "No users found."

\* C24 (as claimed): the users of every result of getUsers is a sequence of
\* records: the empty one when the result has an error, and the list the
\* remote sent, as the body or as its users member, when it has none.
C24_UsersIsSequence ==
    (list.pc = "returned" /\ list.from = "fetch") =>
        /\ IsArray(list.result.users)
        /\ list.result.error # Null => list.result.users = Arr(<<>>)
        /\ list.result.error = Null =>
              list.result.users \in
                  {list.response.body.data, UsersOf(list.response.body.data)}

C26_SuccessIffAccepted ==
    (fac.op \in {"create", "update"} /\ fac.pc = "returned"
        /\ fac.requests # <<>>) =>
        /\ fac.result.success = fac.api.success
        /\ (fac.calls # <<>>) = fac.api.success

\* the values of a key among the entries of a form, in submission order
ValuesOf(entries, key) ==
    LET es == SelectSeq(entries, LAMBDA e : e.key = key)
    IN  [i \in 1..Len(es) |-> es[i].value]

\* C27 (as claimed): in the body of the request of a create, a key that
\* occurs twice or more in the form is an array of all its values in
\* submission order, and a key that occurs once is a single value.
C27_RepeatedKeyIsArray ==
    (fac.op = "create" /\ fac.requests # <<>>) =>
        \A k \in {fac.entries[i].key : i \in 1..Len(fac.entries)} :
            LET values == ValuesOf(fac.entries, k)
                sent == fac.requests[1].body[k]
            IN  IF Len(values) >= 2
                THEN /\ IsArray(sent)
                     /\ Len(sent.items) = Len(values)
                     /\ \A i \in 1..Len(values) :
                            sent.items[i].v = StringOf(values[i])
                ELSE ~IsArray(sent)

\* C28 (as claimed): a toggleProductStock that has returned has sent one
\* PUT for the product whose body is the inStock value alone, and when the
\* remote accepted it, it returns success and has revalidated.
C28_ToggleCanSucceed ==
    (fac.op = "toggleProductStock" /\ fac.pc = "returned") =>
        /\ Len(fac.requests) = 1
        /\ fac.requests[1].method = "PUT"
        /\ fac.requests[1].endpoint = "/products/" \o fac.id
        /\ DOMAIN fac.requests[1].body = {"inStock"}
        /\ (fac.api.success /\ Truthy(fac.api.data)) =>
              /\ fac.result.success = TRUE
              /\ fac.calls # <<>>


\* C29: the error boundary.  In every reachable state hasError is true
\* exactly when error is not null, and the fallback is what is rendered
\* exactly when hasError is true, the children otherwise.  After a child's
\* render has thrown, which happens while the children are rendered, hasError
\* is true, the state holds that very error (the one logged last) and the
\* fallback is rendered.  After a reset the state is {hasError: false,
\* error: null} and the children are rendered, and when there was no error
\* before it state and render are what they were.
C29_BoundaryStateMachine ==
    /\ boundary.state.hasError <=> "type" \in DOMAIN boundary.state.error
    /\ boundary.shown = "fallback" <=> boundary.state.hasError
    /\ boundary.shown = "children" <=> ~boundary.state.hasError
    /\ boundary.last = "error" =>
          /\ boundary.before.shown = "children"
          /\ boundary.state.hasError
          /\ "type" \in DOMAIN boundary.state.error
          /\ boundary.state.error = boundary.console[Len(boundary.console)]
          /\ boundary.shown = "fallback"
    /\ boundary.last = "reset" =>
          /\ ~boundary.state.hasError
          /\ "t" \in DOMAIN boundary.state.error
          /\ boundary.state.error.t = "null"
          /\ boundary.shown = "children"
          /\ ~boundary.before.hasError =>
                /\ boundary.before.error = boundary.state.error
                /\ boundary.before.shown = boundary.shown

\* a second error is caught after a reset, and the fallback is rendered
C29_Witness ==
    /\ Len(boundary.console) = 2
    /\ boundary.state.hasError
    /\ boundary.shown = "fallback"

====
